---- MODULE Spec2Model ----
(***************************************************************************)
(* A model of the WebGPU scatterplot core of deepscatter-webgpu:           *)
(*   - ShallowTable (point collection, bounds, NDC normalisation),         *)
(*   - the renderer variants (WebGPURenderer in its twinkling, opacity,    *)
(*     point-list and quad-expansion forms, and WebGPUPointRenderer).      *)
(* JavaScript numbers are modelled as exact rationals extended with        *)
(* +Infinity, -Infinity and NaN; binary rounding is not modelled.          *)
(***************************************************************************)
EXTENDS Integers, Sequences, FiniteSets, TLC

(***************************************************************************)
(* Bounds of the model.                                                    *)
(***************************************************************************)
\* most tiles the deeptable's visitor yields
MaxTiles == 2
\* most rows over all tiles of one deeptable
MaxRows == 2
\* most collectPoints calls suspended at `await this.deeptable.ready`
MaxCalls == 2
\* most rows of the single tile of the normalisation inputs
MaxNormRows == 3
\* most rows of the single tile of a deeptable whose tiles change
MaxOverlapRows == 1

\* the stars of the starfield (numStars is 1000 in the source)
NumStars == 1
\* most opacity steps after a starfield is created
MaxFrames == 2
\* most interval timers one renderer installs
MaxTimers == 2
\* the count of live position buffers stops at MaxLive ("MaxLive or more")
MaxLive == 2
\* most points handed to setData; setDataArray takes up to twice as many floats
MaxPoints == 2

\* coordinate values of the rows of the general tile sets
Coord == {0, 1}
\* coordinate values of the rows of the normalisation inputs
NormCoord == {-1, 0, 1}

(***************************************************************************)
(* JavaScript numbers: k is "fin" (the rational n/d in lowest terms,       *)
(* d > 0), "pinf", "ninf" or "nan".                                        *)
(***************************************************************************)
Abs(i) == IF i < 0 THEN -i ELSE i

RECURSIVE GCD(_, _)
GCD(a, b) == IF b = 0 THEN a ELSE GCD(b, a % b)

Sign(i) == IF i < 0 THEN -1 ELSE IF i > 0 THEN 1 ELSE 0

PosInfinity == [k |-> "pinf", n |-> 0, d |-> 1]
NegInfinity == [k |-> "ninf", n |-> 0, d |-> 1]
NaN == [k |-> "nan", n |-> 0, d |-> 1]

\* the rational n/d, d # 0, in lowest terms
Frac(n, d) ==
  LET g == GCD(Abs(n), Abs(d))
      s == Sign(d)
  IN [k |-> "fin", n |-> (s * n) \div g, d |-> Abs(d) \div g]

Num(i) == [k |-> "fin", n |-> i, d |-> 1]

IsFinite(a) == a.k = "fin"
IsInf(a) == a.k \in {"pinf", "ninf"}
\* -1, 0, 1 : the sign of a number that is not NaN
SignOf(a) == IF a.k = "pinf" THEN 1 ELSE IF a.k = "ninf" THEN -1 ELSE Sign(a.n)
InfOfSign(s) == IF s > 0 THEN PosInfinity ELSE NegInfinity

NumNeg(a) ==
  CASE a.k = "fin" -> [a EXCEPT !.n = -a.n]
    [] a.k = "pinf" -> NegInfinity
    [] a.k = "ninf" -> PosInfinity
    [] OTHER -> NaN

NumAdd(a, b) ==
  CASE a.k = "nan" \/ b.k = "nan" -> NaN
    [] IsFinite(a) /\ IsFinite(b) -> Frac(a.n * b.d + b.n * a.d, a.d * b.d)
    [] IsInf(a) /\ IsInf(b) -> IF a.k = b.k THEN a ELSE NaN
    [] IsInf(a) -> a
    [] OTHER -> b

NumSub(a, b) == NumAdd(a, NumNeg(b))

NumMul(a, b) ==
  CASE a.k = "nan" \/ b.k = "nan" -> NaN
    [] IsFinite(a) /\ IsFinite(b) -> Frac(a.n * b.n, a.d * b.d)
    [] SignOf(a) = 0 \/ SignOf(b) = 0 -> NaN
    [] OTHER -> InfOfSign(SignOf(a) * SignOf(b))

\* IEEE division; a zero divisor is +0 (the difference of two equal numbers)
NumDiv(a, b) ==
  CASE a.k = "nan" \/ b.k = "nan" -> NaN
    [] IsInf(a) /\ IsInf(b) -> NaN
    [] IsInf(a) -> InfOfSign(SignOf(a) * (IF SignOf(b) < 0 THEN -1 ELSE 1))
    [] IsInf(b) -> Num(0)
    [] b.n = 0 -> IF a.n = 0 THEN NaN ELSE InfOfSign(SignOf(a))
    [] OTHER -> Frac(a.n * b.d, a.d * b.n)

\* a <= b for numbers that are not NaN
NumLE(a, b) ==
  CASE a.k = "ninf" \/ b.k = "pinf" -> TRUE
    [] a.k = "pinf" \/ b.k = "ninf" -> FALSE
    [] OTHER -> a.n * b.d <= b.n * a.d

MathMin(a, b) ==
  IF a.k = "nan" \/ b.k = "nan" THEN NaN ELSE IF NumLE(a, b) THEN a ELSE b

MathMax(a, b) ==
  IF a.k = "nan" \/ b.k = "nan" THEN NaN ELSE IF NumLE(a, b) THEN b ELSE a

Vec2(x, y) == [x |-> x, y |-> y]

(***************************************************************************)
(* State.                                                                  *)
(***************************************************************************)
VARIABLES
  \* ShallowTable and its Deeptable
  tiles,        \* the tiles deeptable.visit yields, in visiting order
  ready,        \* deeptable.ready has resolved
  pending,      \* collectPoints calls suspended at the await
  points,       \* ShallowTable.points
  bounds,       \* ShallowTable.bounds (set = FALSE: null)
  result,       \* the last ShallowTable call that returned or threw
  returned,     \* the list the collectPoints before the last returned, as it is now
  returnedWas,  \* that list as it was when it was returned
  \* one renderer instance and its canvas
  variant,      \* which renderer class the instance is
  initPc,       \* the await at which initialize() is suspended, or "idle"
  initResult,   \* how the last initialize() settled, "pending" while it runs
  device,       \* this.device is set
  context,      \* this.context is set
  pipeline,     \* this.pipeline is set
  vertexBuffer, \* this.vertexBuffer (set = FALSE: null or undefined)
  vertexCount,  \* this.vertexCount
  pointData,    \* this.pointData.length
  opacityBuffer,  \* this.opacityBuffer
  starOpacities,  \* this.starOpacities (set = FALSE: null)
  frames,       \* opacity steps since the starfield was created
  canvas,       \* canvas.width, canvas.height
  lastRender,   \* what the last render() call did
  lastUpdate,   \* what the last updateOpacities() call by itself did
  opacityData,  \* the contents of the opacity buffer on the device
  initFailed,   \* an initialize() rejected for want of navigator.gpu, adapter or context
  intervalId,   \* this.intervalId (0: null)
  timers,       \* the interval timers that are installed and not cleared
  live          \* position buffers created and never destroyed (up to MaxLive)

tableVars ==
  <<tiles, ready, pending, points, bounds, result, returned, returnedWas>>

rendererVars ==
  <<variant, initPc, initResult, device, context, pipeline, vertexBuffer,
    vertexCount, pointData, opacityBuffer, starOpacities, frames, canvas,
    lastRender, lastUpdate, opacityData, initFailed, intervalId, timers, live>>

vars == <<tableVars, rendererVars>>

(***************************************************************************)
(* The tile source: a tile has its 'x' and 'y' columns loaded or not, and  *)
(* a record batch of rows.                                                 *)
(***************************************************************************)
\* the rows of a record batch; a column that is not loaded reads as 0 here,
\* and collectPoints never reads it
RowsOver(C, hasX, hasY) ==
  [x : IF hasX THEN C ELSE {0}, y : IF hasY THEN C ELSE {0}]

RowSeqs(C, hasX, hasY, k) == [1..k -> RowsOver(C, hasX, hasY)]

TilesWithRows(C, k) ==
  UNION {{[hasX |-> loaded[1], hasY |-> loaded[2], rows |-> rows] :
            rows \in RowSeqs(C, loaded[1], loaded[2], k)} :
           loaded \in BOOLEAN \X BOOLEAN}

RECURSIVE RowCount(_)
RowCount(ts) == IF ts = <<>> THEN 0 ELSE Len(Head(ts).rows) + RowCount(Tail(ts))

\* the sequences of at most t tiles holding at most r rows in all
TileSeqs(C, t, r) ==
  LET some == UNION {TilesWithRows(C, k) : k \in 0..r}
  IN UNION {{ts \in [1..n -> some] : RowCount(ts) <= r} : n \in 0..t}

TileSets(t, r) == TileSeqs(Coord, t, r)

\* one tile with both columns loaded and 1..MaxNormRows rows
NormTileSets ==
  {<<[hasX |-> TRUE, hasY |-> TRUE, rows |-> rs]>> :
     rs \in UNION {RowSeqs(NormCoord, TRUE, TRUE, k) : k \in 1..MaxNormRows}}

\* no tile, or one tile of at most MaxOverlapRows rows whose 'x' column is
\* loaded and whose 'y' column may still be loading
OverlapTileSets ==
  {ts \in TileSets(1, MaxOverlapRows) : \A t \in DOMAIN ts : ts[t].hasX}

\* 3 loaded tiles of 2 rows, x an arrangement of 0..5, y constantly 0
ScenarioTileSets ==
  {[t \in 1..3 |->
      [hasX |-> TRUE, hasY |-> TRUE,
       rows |-> [r \in 1..2 |-> [x |-> p[2 * (t - 1) + r] - 1, y |-> 0]]]] :
     p \in Permutations(1..6)}

(***************************************************************************)
(* ShallowTable                                                            *)
(***************************************************************************)
NoBounds == [set |-> FALSE, min |-> Vec2(NaN, NaN), max |-> Vec2(NaN, NaN)]

NoResult == [op |-> "none", threw |-> FALSE, array |-> <<>>]

\* a guard that forgets the 'y' column; C1 must tell it from UsableTile
UsableTileOnlyX(tile) == tile.hasX

\* the guard of the visitor: both columns are loaded
UsableTile(tile) == tile.hasX /\ tile.hasY

\* locals that start from 0; C8 must tell them from VisitStart
VisitStartZero ==
  [points |-> <<>>,
   minX |-> Num(0), minY |-> Num(0),
   maxX |-> Num(0), maxY |-> Num(0)]

\* the locals of collectPoints before the visit
VisitStart ==
  [points |-> <<>>,
   minX |-> PosInfinity, minY |-> PosInfinity,
   maxX |-> NegInfinity, maxY |-> NegInfinity]

\* a loop body with Math.min and Math.max exchanged; C2 must tell it from VisitRow
VisitRowSwapped(acc, row) ==
  [points |-> Append(acc.points, [position |-> Vec2(row.x, row.y)]),
   minX |-> MathMax(acc.minX, Num(row.x)),
   minY |-> MathMax(acc.minY, Num(row.y)),
   maxX |-> MathMin(acc.maxX, Num(row.x)),
   maxY |-> MathMin(acc.maxY, Num(row.y))]

\* the body of the loop over the rows of a tile
VisitRow(acc, row) ==
  [points |-> Append(acc.points, [position |-> Vec2(row.x, row.y)]),
   minX |-> MathMin(acc.minX, Num(row.x)),
   minY |-> MathMin(acc.minY, Num(row.y)),
   maxX |-> MathMax(acc.maxX, Num(row.x)),
   maxY |-> MathMax(acc.maxY, Num(row.y))]

RECURSIVE VisitRows(_, _)
VisitRows(acc, rows) ==
  IF rows = <<>> THEN acc ELSE VisitRows(VisitRow(acc, Head(rows)), Tail(rows))

\* the visitor callback
VisitTile(acc, tile) == IF UsableTile(tile) THEN VisitRows(acc, tile.rows) ELSE acc

\* deeptable.visit(callback)
RECURSIVE Visit(_, _)
Visit(acc, ts) ==
  IF ts = <<>> THEN acc ELSE Visit(VisitTile(acc, Head(ts)), Tail(ts))

\* this.bounds as collectPoints builds it from its locals
BoundsOf(acc) ==
  [set |-> TRUE, min |-> Vec2(acc.minX, acc.minY), max |-> Vec2(acc.maxX, acc.maxY)]

\* collectPoints up to `await this.deeptable.ready`
CollectPointsCall ==
  /\ pending < MaxCalls
  /\ pending' = pending + 1
  /\ result' = [op |-> "collectPoints:await", threw |-> FALSE, array |-> <<>>]
  /\ UNCHANGED <<tiles, ready, points, bounds, returned, returnedWas>>
  /\ UNCHANGED rendererVars

\* a reset that empties the array in place (this.points.length = 0); C18 must
\* tell it from AfterReset
AfterTruncate(list) == <<>>

\* the array this.points held, after `this.points = []`: the field gets a new
\* array and the old one keeps its elements
AfterReset(list) == list

\* a resumption that does not wait for deeptable.ready; C15 must tell it from
\* CollectPointsResume
CollectPointsResumeUnawaited ==
  /\ pending > 0
  /\ pending' = pending - 1
  /\ LET acc == Visit(VisitStart, tiles)
     IN /\ points' = acc.points
        /\ bounds' = BoundsOf(acc)
  /\ returnedWas' = points
  /\ returned' = AfterReset(points)
  /\ result' = [op |-> "collectPoints", threw |-> FALSE, array |-> <<>>]
  /\ UNCHANGED <<tiles, ready>>
  /\ UNCHANGED rendererVars

\* collectPoints from the await to its return
CollectPointsResume ==
  /\ ready
  /\ pending > 0
  /\ pending' = pending - 1
  /\ LET acc == Visit(VisitStart, tiles)
     IN /\ points' = acc.points
        /\ bounds' = BoundsOf(acc)
  /\ returnedWas' = points
  /\ returned' = AfterReset(points)
  /\ result' = [op |-> "collectPoints", threw |-> FALSE, array |-> <<>>]
  /\ UNCHANGED <<tiles, ready>>
  /\ UNCHANGED rendererVars

\* deeptable.ready resolves
ReadyResolve ==
  /\ ~ready
  /\ ready' = TRUE
  /\ UNCHANGED <<tiles, pending, points, bounds, result, returned, returnedWas>>
  /\ UNCHANGED rendererVars

\* the deeptable's tiles change: tiles load, or are replaced
TilesChange ==
  /\ \E ts \in OverlapTileSets : ts # tiles /\ tiles' = ts
  /\ UNCHANGED <<ready, pending, points, bounds, result, returned, returnedWas>>
  /\ UNCHANGED rendererVars

\* getBounds: throws when bounds is null, else returns this.bounds
GetBoundsThrows(b) == ~b.set

GetBounds ==
  /\ result' = [op |-> "getBounds", threw |-> GetBoundsThrows(bounds), array |-> <<>>]
  /\ UNCHANGED <<tiles, ready, pending, points, bounds, returned, returnedWas>>
  /\ UNCHANGED rendererVars

\* a normalisation to [0,1]; C5 must tell it from normalizeCoordinate
normalizeCoordinateUnit(value, min, max) ==
  NumDiv(NumSub(value, min), NumSub(max, min))

\* ShallowTable.normalizeCoordinate
normalizeCoordinate(value, min, max) ==
  LET normalized == NumDiv(NumSub(value, min), NumSub(max, min))
  IN NumSub(NumMul(normalized, Num(2)), Num(1))

\* array[index] = value of a typed array (index from 0; out of range: ignored)
ArraySet(array, index, value) ==
  IF index + 1 \in DOMAIN array THEN [array EXCEPT ![index + 1] = value] ELSE array

\* a callback that stores y before x; C6 must tell it from NormalizePoint
NormalizePointSwapped(array, point, i, b) ==
  LET x == normalizeCoordinate(Num(point.position.x), b.min.x, b.max.x)
      y == normalizeCoordinate(Num(point.position.y), b.min.y, b.max.y)
  IN ArraySet(ArraySet(array, i * 2, y), i * 2 + 1, x)

\* the callback of points.forEach, i from 0
NormalizePoint(array, point, i, b) ==
  LET x == normalizeCoordinate(Num(point.position.x), b.min.x, b.max.x)
      y == normalizeCoordinate(Num(point.position.y), b.min.y, b.max.y)
  IN ArraySet(ArraySet(array, i * 2, x), i * 2 + 1, y)

RECURSIVE NormalizeFrom(_, _, _, _)
NormalizeFrom(array, pts, i, b) ==
  IF i >= Len(pts) THEN array
  ELSE NormalizeFrom(NormalizePoint(array, pts[i + 1], i, b), pts, i + 1, b)

\* new Float32Array(n): n zeros
Float32Array(n) == [j \in 1..n |-> Num(0)]

\* getNormalizedPointsArray: reading this.bounds!.min of a null bounds throws
getNormalizedPointsArray(pts, b) ==
  IF pts # <<>> /\ ~b.set
  THEN [op |-> "getNormalizedPointsArray", threw |-> TRUE, array |-> <<>>]
  ELSE [op |-> "getNormalizedPointsArray", threw |-> FALSE,
        array |-> NormalizeFrom(Float32Array(Len(pts) * 2), pts, 0, b)]

GetNormalizedPointsArray ==
  /\ result' = getNormalizedPointsArray(points, bounds)
  /\ UNCHANGED <<tiles, ready, pending, points, bounds, returned, returnedWas>>
  /\ UNCHANGED rendererVars

(***************************************************************************)
(* The renderers.                                                          *)
(*   "twinkling"     WebGPURenderer with startTwinkling                    *)
(*   "opacity"       WebGPURenderer with an opacity buffer                 *)
(*   "pointList"     WebGPURenderer drawing a point list from setDataArray *)
(*   "quads"         WebGPURenderer drawing six vertices for each point    *)
(*   "pointRenderer" WebGPUPointRenderer                                   *)
(***************************************************************************)
Variants == {"twinkling", "opacity", "pointList", "quads", "pointRenderer"}

HasStarfield(v) == v \in {"twinkling", "opacity"}

\* arrayStride of the position buffer's layout
ArrayStride == 8
\* bytes of an element of a Float32Array
BytesPerElement == 4
\* vertices the quad variant writes for each point
VerticesPerPoint == 6

\* the values Math.random() is drawn from; a Float32Array rounds the largest to 1
RandomValues == {Num(0), Num(1)}

CanvasSizes == {[width |-> 300, height |-> 150], [width |-> 640, height |-> 480]}

NoBuffer == [set |-> FALSE, size |-> 0]

Buffer(size) == [set |-> TRUE, size |-> size]

NoOpacities == [set |-> FALSE, values |-> <<>>]

NoRender ==
  [called |-> FALSE, absent |-> FALSE, skipped |-> FALSE, threw |-> FALSE,
   draws |-> 0, drawCount |-> 0, bound |-> FALSE, boundVertices |-> 0,
   submits |-> 0, afterFailure |-> FALSE, trace |-> <<>>, fresh |-> TRUE]

NoUpdate == [called |-> FALSE, absent |-> FALSE, threw |-> FALSE, wrote |-> FALSE]

\* device.createBuffer for a position buffer: one more buffer is live
Created(n) == IF n < MaxLive THEN n + 1 ELSE n

\* the vertices a position buffer holds
BufferVertices(buffer) == buffer.size \div ArrayStride

\* the conversion of a draw count to an unsigned integer
IntegerPart(a) == a.n \div a.d

\* a required resource of the frame is absent
ResourceAbsent ==
  \/ ~device
  \/ ~context
  \/ ~pipeline
  \/ ~vertexBuffer.set
  \/ variant = "opacity" /\ ~opacityBuffer.set

(***************************************************************************)
(* initialize()                                                            *)
(***************************************************************************)
\* initialize() up to `await navigator.gpu.requestAdapter()`
InitializeCall ==
  /\ initPc = "idle"
  /\ \E gpu \in BOOLEAN :
       IF gpu
       THEN /\ initPc' = "requestAdapter"
            /\ initResult' = "pending"
            /\ UNCHANGED initFailed
       ELSE /\ initPc' = "idle"
            /\ initResult' = "rejected"
            /\ initFailed' = TRUE
  /\ UNCHANGED <<variant, device, context, pipeline, vertexBuffer, vertexCount,
                 pointData, opacityBuffer, starOpacities, frames, canvas,
                 lastRender>>
  /\ UNCHANGED <<lastUpdate, opacityData, intervalId, timers, live>>
  /\ UNCHANGED tableVars

\* from the adapter to `await adapter.requestDevice()`
InitializeAdapter ==
  /\ initPc = "requestAdapter"
  /\ \E adapter \in BOOLEAN :
       IF adapter
       THEN /\ initPc' = "requestDevice"
            /\ initResult' = "pending"
            /\ UNCHANGED initFailed
       ELSE /\ initPc' = "idle"
            /\ initResult' = "rejected"
            /\ initFailed' = TRUE
  /\ UNCHANGED <<variant, device, context, pipeline, vertexBuffer, vertexCount,
                 pointData, opacityBuffer, starOpacities, frames, canvas,
                 lastRender>>
  /\ UNCHANGED <<lastUpdate, opacityData, intervalId, timers, live>>
  /\ UNCHANGED tableVars

\* requestDevice() rejects
InitializeDeviceFails ==
  /\ initPc = "requestDevice"
  /\ initPc' = "idle"
  /\ initResult' = "rejected"
  /\ UNCHANGED <<variant, device, context, pipeline, vertexBuffer, vertexCount,
                 pointData, opacityBuffer, starOpacities, frames, canvas,
                 lastRender>>
  /\ UNCHANGED <<lastUpdate, opacityData, initFailed, intervalId, timers, live>>
  /\ UNCHANGED tableVars

\* from the device to the context, the pipeline and, in WebGPURenderer,
\* `await this.createPipeline(format)`
InitializeDevice ==
  /\ initPc = "requestDevice"
  /\ device' = TRUE
  /\ \E ctx \in BOOLEAN :
       /\ context' = ctx
       /\ initFailed' = (initFailed \/ ~ctx)
       /\ IF ~ctx
          THEN /\ initPc' = "idle"
               /\ initResult' = "rejected"
               /\ UNCHANGED pipeline
          ELSE /\ pipeline' = TRUE
               /\ IF variant = "pointRenderer"
                  THEN /\ initPc' = "idle"
                       /\ initResult' = "resolved"
                  ELSE /\ initPc' = "createPipeline"
                       /\ initResult' = "pending"
  /\ UNCHANGED <<variant, vertexBuffer, vertexCount, pointData, opacityBuffer,
                 starOpacities, frames, canvas, lastRender>>
  /\ UNCHANGED <<lastUpdate, opacityData, intervalId, timers, live>>
  /\ UNCHANGED tableVars

\* createStarfield()
CreateStarfield ==
  /\ \E values \in [1..NumStars -> RandomValues] :
       /\ starOpacities' = [set |-> TRUE, values |-> values]
       /\ opacityData' = IF variant = "opacity" THEN values ELSE opacityData
  /\ vertexBuffer' = Buffer(NumStars * 2 * BytesPerElement)
  /\ live' = Created(live)
  /\ opacityBuffer' =
       IF variant = "opacity" THEN Buffer(NumStars * BytesPerElement) ELSE opacityBuffer
  /\ frames' = 0

\* from the pipeline's promise to the end of initialize()
InitializePipeline ==
  /\ initPc = "createPipeline"
  /\ initPc' = "idle"
  /\ initResult' = "resolved"
  /\ IF HasStarfield(variant)
     THEN CreateStarfield
     ELSE UNCHANGED <<starOpacities, vertexBuffer, opacityBuffer, frames,
                      opacityData, live>>
  /\ UNCHANGED <<variant, device, context, pipeline, vertexCount, pointData,
                 canvas, lastRender>>
  /\ UNCHANGED <<lastUpdate, initFailed, intervalId, timers>>
  /\ UNCHANGED tableVars

(***************************************************************************)
(* setDataArray(points), setData(points)                                   *)
(***************************************************************************)
\* this.vertexCount of setDataArray for points.length = len
VertexCountOf(v, len) ==
  LET numPoints == NumDiv(Num(len), Num(2))
  IN IF v = "quads" THEN NumMul(numPoints, Num(VerticesPerPoint)) ELSE numPoints

\* byteLength of the array setDataArray uploads
UploadBytesOf(v, len) ==
  IF v = "quads"
  THEN IntegerPart(NumMul(NumMul(NumDiv(Num(len), Num(2)), Num(VerticesPerPoint)), Num(2)))
       * BytesPerElement
  ELSE len * BytesPerElement

SetDataArray ==
  /\ variant \in {"pointList", "quads"}
  /\ \E len \in 0..(2 * MaxPoints) :
       IF len = 0
       THEN UNCHANGED <<vertexCount, vertexBuffer, live>>
       ELSE /\ vertexCount' = VertexCountOf(variant, len)
            /\ IF device
               THEN /\ vertexBuffer' = Buffer(UploadBytesOf(variant, len))
                    /\ live' = Created(live)
               ELSE UNCHANGED <<vertexBuffer, live>>
  /\ UNCHANGED <<variant, initPc, initResult, device, context, pipeline,
                 pointData, opacityBuffer, starOpacities, frames, canvas,
                 lastRender>>
  /\ UNCHANGED <<lastUpdate, opacityData, initFailed, intervalId, timers>>
  /\ UNCHANGED tableVars

SetData ==
  /\ variant = "pointRenderer"
  /\ \E n \in 0..MaxPoints :
       /\ pointData' = n
       /\ IF device
          THEN /\ vertexBuffer' = Buffer(n * 2 * BytesPerElement)
               /\ live' = Created(live)
          ELSE UNCHANGED <<vertexBuffer, live>>
  /\ UNCHANGED <<variant, initPc, initResult, device, context, pipeline,
                 vertexCount, opacityBuffer, starOpacities, frames, canvas,
                 lastRender>>
  /\ UNCHANGED <<lastUpdate, opacityData, initFailed, intervalId, timers>>
  /\ UNCHANGED tableVars

(***************************************************************************)
(* render()                                                                *)
(***************************************************************************)
\* the frame returned at its guard
Skipped ==
  [called |-> TRUE, absent |-> ResourceAbsent, skipped |-> TRUE, threw |-> FALSE,
   draws |-> 0, drawCount |-> 0, bound |-> FALSE, boundVertices |-> 0,
   submits |-> 0, afterFailure |-> initFailed, trace |-> <<>>, fresh |-> TRUE]

\* the frame threw before its draw
Threw ==
  [called |-> TRUE, absent |-> ResourceAbsent, skipped |-> FALSE, threw |-> TRUE,
   draws |-> 0, drawCount |-> 0, bound |-> FALSE, boundVertices |-> 0,
   submits |-> 0, afterFailure |-> initFailed, trace |-> <<>>, fresh |-> TRUE]

\* the frame drew count vertices, with this.vertexBuffer in slot 0, and submitted
Drew(count) ==
  [called |-> TRUE, absent |-> ResourceAbsent, skipped |-> FALSE, threw |-> FALSE,
   draws |-> 1, drawCount |-> count, bound |-> vertexBuffer.set,
   boundVertices |-> BufferVertices(vertexBuffer), submits |-> 1,
   afterFailure |-> initFailed, trace |-> <<"draw", "submit">>, fresh |-> TRUE]

\* the smoothing step of updateOpacities
Smoothing == Frac(4, 10)

\* a step that adds the target and not the difference; C9 must tell it from Blend
BlendAddsTarget(currentOpacity, targetOpacity) ==
  NumAdd(currentOpacity, NumMul(targetOpacity, Smoothing))

\* currentOpacity += (targetOpacity - currentOpacity) * 0.4
Blend(currentOpacity, targetOpacity) ==
  NumAdd(currentOpacity, NumMul(NumSub(targetOpacity, currentOpacity), Smoothing))

\* 0.05 + Math.random() * 0.95
TargetOpacity(random) == NumAdd(Frac(5, 100), NumMul(random, Frac(95, 100)))

\* the guard of updateOpacities
UpdateOpacitiesSkips == ~device \/ ~opacityBuffer.set \/ ~starOpacities.set

\* starOpacities after updateOpacities draws `randoms`
UpdateOpacities(randoms) ==
  IF UpdateOpacitiesSkips THEN starOpacities
  ELSE [starOpacities EXCEPT !.values =
          [i \in DOMAIN starOpacities.values |->
             Blend(starOpacities.values[i], TargetOpacity(randoms[i]))]]

\* the opacities in this.starOpacities and on the device while a frame runs
StartFrame ==
  [cpu |-> starOpacities.values, gpu |-> opacityData, drawn |-> <<>>,
   trace |-> <<>>]

\* device.queue.writeBuffer(this.opacityBuffer, 0, this.starOpacities)
WriteBuffer(frame) ==
  [frame EXCEPT !.gpu = frame.cpu, !.trace = Append(@, "upload")]

\* updateOpacities inside a frame: the step, then its own writeBuffer
UpdateOpacitiesIn(frame, randoms) ==
  IF UpdateOpacitiesSkips THEN frame
  ELSE WriteBuffer([frame EXCEPT !.cpu = UpdateOpacities(randoms).values,
                                 !.trace = Append(@, "step")])

\* the render pass: the draw reads the opacity buffer as it is on the device
DrawStars(frame) ==
  [frame EXCEPT !.drawn = frame.gpu, !.trace = Append(@, "draw")]

\* device.queue.submit
Submit(frame) == [frame EXCEPT !.trace = Append(@, "submit")]

\* a frame that draws before it steps; C17 must tell it from OpacityFrame
OpacityFrameDrawsFirst(frame, randoms) ==
  UpdateOpacitiesIn(Submit(DrawStars(WriteBuffer(frame))), randoms)

\* the ready frame of the opacity renderer
OpacityFrame(frame, randoms) ==
  Submit(DrawStars(WriteBuffer(UpdateOpacitiesIn(frame, randoms))))

\* what no render() assigns
RenderKeeps ==
  /\ UNCHANGED <<variant, initPc, initResult, device, context, pipeline,
                 vertexBuffer, vertexCount, pointData, opacityBuffer, canvas>>
  /\ UNCHANGED <<lastUpdate, initFailed, intervalId, timers, live>>
  /\ UNCHANGED tableVars

\* WebGPURenderer.render with startTwinkling
RenderTwinkling ==
  /\ variant = "twinkling"
  /\ IF ~device \/ ~context \/ ~pipeline \/ ~vertexBuffer.set
     THEN /\ lastRender' = Skipped
          /\ UNCHANGED starOpacities
     ELSE /\ IF starOpacities.set
             THEN \E values \in [1..NumStars -> RandomValues] :
                    starOpacities' = [starOpacities EXCEPT !.values = values]
             ELSE UNCHANGED starOpacities
          /\ lastRender' = Drew(NumStars)
  /\ UNCHANGED <<frames, opacityData>>
  /\ RenderKeeps

\* WebGPURenderer.render with the opacity buffer
RenderOpacity ==
  /\ variant = "opacity"
  /\ IF \/ ~device \/ ~context \/ ~pipeline
        \/ ~vertexBuffer.set \/ ~opacityBuffer.set \/ ~starOpacities.set
     THEN /\ lastRender' = Skipped
          /\ UNCHANGED <<starOpacities, frames, opacityData>>
     ELSE /\ frames < MaxFrames
          /\ \E randoms \in [1..NumStars -> RandomValues] :
               LET frame == OpacityFrame(StartFrame, randoms)
               IN /\ starOpacities' = [starOpacities EXCEPT !.values = frame.cpu]
                  /\ opacityData' = frame.gpu
                  /\ lastRender' = [Drew(NumStars) EXCEPT
                                      !.trace = frame.trace,
                                      !.fresh = (frame.drawn = frame.cpu)]
          /\ frames' = frames + 1
  /\ RenderKeeps

\* WebGPURenderer.render of the point-list and quad variants
RenderVertices ==
  /\ variant \in {"pointList", "quads"}
  /\ lastRender' =
       IF ~vertexBuffer.set \/ vertexCount = Num(0) THEN Skipped
       ELSE IF ~device \/ ~context \/ ~pipeline THEN Threw
       ELSE Drew(IntegerPart(vertexCount))
  /\ UNCHANGED <<starOpacities, frames, opacityData>>
  /\ RenderKeeps

\* WebGPUPointRenderer.render; setVertexBuffer(0, undefined) either throws
\* or leaves slot 0 unbound, by the version of the API
RenderPoints ==
  /\ variant = "pointRenderer"
  /\ \E unbind \in BOOLEAN :
       lastRender' =
         IF ~context \/ ~device \/ ~pipeline THEN Threw
         ELSE IF ~vertexBuffer.set /\ ~unbind THEN Threw
         ELSE Drew(pointData)
  /\ UNCHANGED <<starOpacities, frames, opacityData>>
  /\ RenderKeeps

\* resize(width, height)
Resize ==
  /\ variant # "pointRenderer"
  /\ \E size \in CanvasSizes : canvas' = size
  /\ UNCHANGED <<variant, initPc, initResult, device, context, pipeline,
                 vertexBuffer, vertexCount, pointData, opacityBuffer,
                 starOpacities, frames, lastRender>>
  /\ UNCHANGED <<lastUpdate, opacityData, initFailed, intervalId, timers, live>>
  /\ UNCHANGED tableVars

(***************************************************************************)
(* updateOpacities() by itself, startTwinkling(interval), the timer        *)
(***************************************************************************)
\* updateOpacities, which TypeScript marks private, called outside render()
UpdateOpacitiesCall ==
  /\ variant = "opacity"
  /\ IF UpdateOpacitiesSkips
     THEN /\ lastUpdate' = [called |-> TRUE, absent |-> ~opacityBuffer.set,
                            threw |-> FALSE, wrote |-> FALSE]
          /\ UNCHANGED <<starOpacities, opacityData, frames>>
     ELSE /\ frames < MaxFrames
          /\ \E randoms \in [1..NumStars -> RandomValues] :
               LET frame == UpdateOpacitiesIn(StartFrame, randoms)
               IN /\ starOpacities' = [starOpacities EXCEPT !.values = frame.cpu]
                  /\ opacityData' = frame.gpu
          /\ frames' = frames + 1
          /\ lastUpdate' = [called |-> TRUE, absent |-> FALSE,
                            threw |-> FALSE, wrote |-> TRUE]
  /\ UNCHANGED <<variant, initPc, initResult, device, context, pipeline,
                 vertexBuffer, vertexCount, pointData, opacityBuffer, canvas,
                 lastRender, initFailed, intervalId, timers, live>>
  /\ UNCHANGED tableVars

\* a start that clears no timer; C16 must tell it from ClearStored
KeepStored(id, installed) == installed

\* if (this.intervalId) clearInterval(this.intervalId)
ClearStored(id, installed) == IF id # 0 THEN installed \ {id} ELSE installed

\* startTwinkling(interval); setInterval returns a handle it has not returned before
StartTwinkling ==
  /\ variant = "twinkling"
  /\ intervalId < MaxTimers
  /\ intervalId' = intervalId + 1
  /\ timers' = ClearStored(intervalId, timers) \cup {intervalId'}
  /\ UNCHANGED <<variant, initPc, initResult, device, context, pipeline,
                 vertexBuffer, vertexCount, pointData, opacityBuffer,
                 starOpacities, frames, canvas, lastRender, lastUpdate,
                 opacityData, initFailed, live>>
  /\ UNCHANGED tableVars

\* an installed timer fires: its callback calls this.render()
TimerTick ==
  /\ timers # {}
  /\ RenderTwinkling

(***************************************************************************)
(* Specifications.                                                         *)
(***************************************************************************)
\* a renderer of class v after its constructor
Constructed(v) ==
  /\ variant = v
  /\ initPc = "idle"
  /\ initResult = "none"
  /\ device = FALSE
  /\ context = FALSE
  /\ pipeline = FALSE
  /\ vertexBuffer = NoBuffer
  /\ vertexCount = Num(0)
  /\ pointData = 0
  /\ opacityBuffer = NoBuffer
  /\ starOpacities = NoOpacities
  /\ frames = 0
  /\ canvas = [width |-> 300, height |-> 150]
  /\ lastRender = NoRender
  /\ lastUpdate = NoUpdate
  /\ opacityData = <<>>
  /\ initFailed = FALSE
  /\ intervalId = 0
  /\ timers = {}
  /\ live = 0

\* a ShallowTable after its constructor, over a deeptable of ts
TableStart(ts) ==
  /\ tiles \in ts
  /\ ready \in {r \in BOOLEAN : ts # {<<>>} \/ ~r}
  /\ pending = 0
  /\ points = <<>>
  /\ bounds = NoBounds
  /\ result = NoResult
  /\ returned = <<>>
  /\ returnedWas = <<>>

Init ==
  /\ \E v \in Variants : Constructed(v)
  /\ TableStart({<<>>})

Next ==
  \/ InitializeCall
  \/ InitializeAdapter
  \/ InitializeDeviceFails
  \/ InitializeDevice
  \/ InitializePipeline
  \/ SetDataArray
  \/ SetData
  \/ RenderTwinkling
  \/ RenderOpacity
  \/ RenderVertices
  \/ RenderPoints
  \/ Resize
  \/ UpdateOpacitiesCall
  \/ StartTwinkling
  \/ TimerTick

Spec == Init /\ [][Next]_vars

\* an installed timer keeps firing, and the caller keeps calling every
\* operation the instance offers
Fairness ==
  /\ WF_vars(TimerTick)
  /\ WF_vars(StartTwinkling)
  /\ WF_vars(InitializeCall)
  /\ WF_vars(InitializeAdapter)
  /\ WF_vars(InitializeDevice)
  /\ WF_vars(InitializePipeline)
  /\ WF_vars(RenderTwinkling)
  /\ WF_vars(Resize)

SpecDriver == Init /\ [][Next]_vars /\ Fairness

TableNext ==
  \/ ReadyResolve
  \/ CollectPointsCall
  \/ CollectPointsResume
  \/ GetBounds
  \/ GetNormalizedPointsArray

TableInit == TableStart(TileSets(MaxTiles, MaxRows)) /\ Constructed("pointList")

SpecTable == TableInit /\ [][TableNext]_vars

NormInit == TableStart(NormTileSets) /\ Constructed("pointList")

SpecNormalize == NormInit /\ [][TableNext]_vars

OverlapNext ==
  \/ ReadyResolve
  \/ CollectPointsCall
  \/ CollectPointsResume
  \/ GetBounds
  \/ GetNormalizedPointsArray
  \/ TilesChange

OverlapInit == TableStart(OverlapTileSets) /\ Constructed("pointList")

SpecOverlap == OverlapInit /\ [][OverlapNext]_vars

ScenarioInit == TableStart(ScenarioTileSets) /\ Constructed("pointList")

SpecScenario == ScenarioInit /\ [][TableNext]_vars

(***************************************************************************)
(* Claims about ShallowTable.                                              *)
(***************************************************************************)
\* the tiles that have both columns loaded, stated on the tile itself
LoadedBoth(t) == tiles[t].hasX /\ tiles[t].hasY

RECURSIVE SumOver(_, _)
SumOver(f, S) ==
  IF S = {} THEN 0
  ELSE LET e == CHOOSE e \in S : TRUE IN f[e] + SumOver(f, S \ {e})

\* the rows of the tiles with both columns loaded
UsableRowCount ==
  SumOver([t \in DOMAIN tiles |-> Len(tiles[t].rows)],
          {t \in DOMAIN tiles : LoadedBoth(t)})

\* C1: once collectPoints has returned, points holds one point for each row
\* of every tile with both 'x' and 'y' loaded and no other point: its length
\* is the sum of the row counts of those tiles, and every point is a row of
\* such a tile.
C1_OnePointPerUsableRow ==
  bounds.set =>
    /\ Len(points) = UsableRowCount
    /\ \A i \in DOMAIN points :
         \E t \in DOMAIN tiles :
           /\ LoadedBoth(t)
           /\ \E r \in DOMAIN tiles[t].rows :
                /\ tiles[t].rows[r].x = points[i].position.x
                /\ tiles[t].rows[r].y = points[i].position.y

\* a collection over a loaded tile with a row and a skipped tile with a row
C1_Witness ==
  /\ result.op = "collectPoints"
  /\ Len(points) > 0
  /\ \E t \in DOMAIN tiles : LoadedBoth(t) /\ tiles[t].rows # <<>>
  /\ \E t \in DOMAIN tiles : tiles[t].hasX /\ ~tiles[t].hasY /\ tiles[t].rows # <<>>

\* C2: after collectPoints over at least one usable row, getBounds returns
\* bounds with min <= max on both axes, every collected point inside them,
\* and each of the four bounds attained by a collected point.
C2_BoundsAreMinMax ==
  (result.op = "getBounds" /\ points # <<>>) =>
    /\ ~result.threw
    /\ NumLE(bounds.min.x, bounds.max.x)
    /\ NumLE(bounds.min.y, bounds.max.y)
    /\ \A i \in DOMAIN points :
         /\ NumLE(bounds.min.x, Num(points[i].position.x))
         /\ NumLE(Num(points[i].position.x), bounds.max.x)
         /\ NumLE(bounds.min.y, Num(points[i].position.y))
         /\ NumLE(Num(points[i].position.y), bounds.max.y)
    /\ \E i \in DOMAIN points : bounds.min.x = Num(points[i].position.x)
    /\ \E i \in DOMAIN points : bounds.max.x = Num(points[i].position.x)
    /\ \E i \in DOMAIN points : bounds.min.y = Num(points[i].position.y)
    /\ \E i \in DOMAIN points : bounds.max.y = Num(points[i].position.y)

\* getBounds after a collection whose points differ on both axes
C2_Witness ==
  /\ result.op = "getBounds"
  /\ Len(points) > 1
  /\ bounds.min.x # bounds.max.x
  /\ bounds.min.y # bounds.max.y

\* what C5 says of one axis: value v, bounds lo and hi, normalised value a
NormalizedOnAxis(v, lo, hi, a) ==
  /\ a.k = "fin"
  /\ a.n * (hi.n - lo.n) = (2 * (v - lo.n) - (hi.n - lo.n)) * a.d
  /\ v = lo.n => a = Num(-1)
  /\ v = hi.n => a = Num(1)
  /\ 2 * v = lo.n + hi.n => a = Num(0)

NonzeroExtent ==
  /\ bounds.set
  /\ IsFinite(bounds.min.x) /\ IsFinite(bounds.max.x)
  /\ IsFinite(bounds.min.y) /\ IsFinite(bounds.max.y)
  /\ bounds.min.x # bounds.max.x
  /\ bounds.min.y # bounds.max.y

\* C5: with bounds of nonzero extent on both axes, getNormalizedPointsArray
\* gives every point (v - min) / (max - min) * 2 - 1 on each axis by itself:
\* -1 at the minimum, 1 at the maximum, 0 at the midpoint.
C5_NormalizesToNDC ==
  (result.op = "getNormalizedPointsArray" /\ NonzeroExtent) =>
    /\ ~result.threw
    /\ \A i \in DOMAIN points :
         /\ NormalizedOnAxis(points[i].position.x, bounds.min.x, bounds.max.x,
                             result.array[2 * i - 1])
         /\ NormalizedOnAxis(points[i].position.y, bounds.min.y, bounds.max.y,
                             result.array[2 * i])

\* an array over a point at bounds.min, one at bounds.max and one at the midpoint
C5_Witness ==
  /\ result.op = "getNormalizedPointsArray"
  /\ NonzeroExtent
  /\ \E i \in DOMAIN points :
       /\ Num(points[i].position.x) = bounds.min.x
       /\ Num(points[i].position.y) = bounds.min.y
       /\ result.array[2 * i - 1] = Num(-1)
  /\ \E i \in DOMAIN points :
       /\ Num(points[i].position.x) = bounds.max.x
       /\ Num(points[i].position.y) = bounds.max.y
       /\ result.array[2 * i] = Num(1)
  /\ \E i \in DOMAIN points :
       /\ 2 * points[i].position.x = bounds.min.x.n + bounds.max.x.n
       /\ 2 * points[i].position.y = bounds.min.y.n + bounds.max.y.n
       /\ result.array[2 * i - 1] = Num(0)

\* the rows the visitor yields, tile by tile, skipped tiles left out
RECURSIVE RowsInOrder(_)
RowsInOrder(ts) ==
  IF ts = <<>> THEN <<>>
  ELSE (IF Head(ts).hasX /\ Head(ts).hasY THEN Head(ts).rows ELSE <<>>)
       \o RowsInOrder(Tail(ts))

\* C6: the array getNormalizedPointsArray returns has two entries for each
\* collected point; entries 2i and 2i+1 (from 0) are the normalised x and y
\* of the i-th point, and the points are in the order of the visit.
C6_InterleavedInOrder ==
  /\ bounds.set =>
       /\ Len(points) = Len(RowsInOrder(tiles))
       /\ \A i \in DOMAIN points :
            /\ points[i].position.x = RowsInOrder(tiles)[i].x
            /\ points[i].position.y = RowsInOrder(tiles)[i].y
  /\ result.op = "getNormalizedPointsArray" =>
       /\ ~result.threw
       /\ Len(result.array) = 2 * Len(points)
       /\ \A i \in DOMAIN points :
            /\ result.array[2 * i - 1] =
                 normalizeCoordinate(Num(points[i].position.x),
                                     bounds.min.x, bounds.max.x)
            /\ result.array[2 * i] =
                 normalizeCoordinate(Num(points[i].position.y),
                                     bounds.min.y, bounds.max.y)

\* an array over two points of two tiles, all four entries told apart
C6_Witness ==
  /\ result.op = "getNormalizedPointsArray"
  /\ Len(tiles) = 2
  /\ Len(points) = 2
  /\ Len(result.array) = 4
  /\ IsFinite(result.array[1]) /\ IsFinite(result.array[2])
  /\ result.array[1] # result.array[2]
  /\ result.array[1] # result.array[3]

\* C7: in the scenario of 3 loaded tiles of 2 rows, x over 0..5 and y = 0,
\* the bounds are (0,0)..(5,0), x = 0 normalises to -1, x = 5 to 1, and every
\* normalised y is the fallback 0.
C7_ScenarioFallbackZero ==
  (result.op = "getNormalizedPointsArray" /\ bounds.set) =>
    /\ bounds.min = Vec2(Num(0), Num(0))
    /\ bounds.max = Vec2(Num(5), Num(0))
    /\ \A i \in DOMAIN points :
         /\ points[i].position.x = 0 => result.array[2 * i - 1] = Num(-1)
         /\ points[i].position.x = 5 => result.array[2 * i - 1] = Num(1)
         /\ result.array[2 * i] = Num(0)

\* no tile has both columns loaded and a row
NoUsableRow == \A t \in DOMAIN tiles : ~LoadedBoth(t) \/ tiles[t].rows = <<>>

\* C8: a collection that finds no usable row returns an empty list and
\* leaves the bounds at min = (+inf,+inf), max = (-inf,-inf); getBounds
\* returns them without throwing, and min > max on both axes.
C8_EmptyCollectionSentinel ==
  (bounds.set /\ NoUsableRow) =>
    /\ points = <<>>
    /\ bounds.min = Vec2(PosInfinity, PosInfinity)
    /\ bounds.max = Vec2(NegInfinity, NegInfinity)
    /\ ~NumLE(bounds.min.x, bounds.max.x)
    /\ ~NumLE(bounds.min.y, bounds.max.y)
    /\ result.op = "getBounds" => ~result.threw

\* getBounds after a collection over tiles that all miss a column
C8_Witness ==
  /\ result.op = "getBounds"
  /\ bounds.set
  /\ NoUsableRow
  /\ \E t \in DOMAIN tiles : tiles[t].rows # <<>>

(***************************************************************************)
(* Claims about the renderers.                                             *)
(***************************************************************************)
\* C3: a render() entered with a required resource absent neither draws
\* nor submits.
C3_NotReadyDrawsNothing ==
  (lastRender.called /\ lastRender.absent) =>
    lastRender.draws = 0 /\ lastRender.submits = 0

\* C4: render() never throws.
C4_RenderNeverThrows == ~lastRender.threw

\* C9: in the opacity renderer every opacity is within [0,1], after any
\* number of updateOpacities steps.
C9_OpacitiesInUnitRange ==
  (variant = "opacity" /\ starOpacities.set) =>
    \A i \in DOMAIN starOpacities.values :
      /\ NumLE(Num(0), starOpacities.values[i])
      /\ NumLE(starOpacities.values[i], Num(1))

\* two steps made, and an opacity strictly inside the range
C9_Witness ==
  /\ variant = "opacity"
  /\ frames >= 2
  /\ lastRender.draws = 1
  /\ \E i \in DOMAIN starOpacities.values :
       /\ starOpacities.values[i] # Num(0)
       /\ starOpacities.values[i] # Num(1)
       /\ starOpacities.values[i].d > 20

\* C10: a draw covers exactly the vertices of the position buffer bound for
\* it (none when slot 0 is unbound).
C10_DrawCoversBoundBuffer ==
  lastRender.draws = 1 =>
    lastRender.drawCount = (IF lastRender.bound THEN lastRender.boundVertices ELSE 0)

\* C11: an opacity update attempted while no opacity buffer is allocated is
\* surfaced as an error to its caller, never silently ignored.
C11_UpdateWithoutBufferThrows ==
  (lastUpdate.called /\ lastUpdate.absent) => lastUpdate.threw

\* C12: a failed initialize() is delivered as a rejection, and once an
\* initialize() has failed for want of navigator.gpu, an adapter or a context,
\* no render() of the instance submits a draw.
C12_FailedInstanceNeverDraws ==
  /\ (initPc = "idle" /\ ~device) => initResult \in {"none", "rejected"}
  /\ lastRender.afterFailure => lastRender.submits = 0

\* C13: the periodic driver can be stopped: with the caller calling every
\* operation of the instance again and again, a running driver comes to a
\* state with no timer installed, where no tick renders.
C13_DriverStops == (timers # {}) ~> (timers = {})

\* C14: at most one position buffer the renderer created is live, and it is
\* the buffer in this.vertexBuffer.
C14_OneLivePositionBuffer ==
  /\ live <= 1
  /\ vertexBuffer.set => live = 1

\* C16: after any startTwinkling calls at most one interval timer is
\* installed, and it is the one stored in this.intervalId.
C16_OneTimer ==
  /\ Cardinality(timers) <= 1
  /\ timers \subseteq {intervalId}
  /\ intervalId # 0 => timers = {intervalId}

\* a second startTwinkling has replaced the timer of the first
C16_Witness ==
  /\ intervalId = 2
  /\ timers = {2}
  /\ lastRender.draws = 1

\* the sub-steps of a frame, counted
CountOf(trace, step) == Cardinality({i \in DOMAIN trace : trace[i] = step})

\* C17: a ready frame of the opacity renderer steps the opacities exactly
\* once and first, uploads the stepped opacities before it draws, draws
\* exactly once, and submits exactly once and last; the draw reads the
\* stepped opacities.
C17_FrameOrder ==
  (variant = "opacity" /\ lastRender.called /\ ~lastRender.skipped) =>
    LET trace == lastRender.trace
    IN /\ CountOf(trace, "step") = 1
       /\ CountOf(trace, "draw") = 1
       /\ CountOf(trace, "submit") = 1
       /\ CountOf(trace, "upload") >= 1
       /\ trace[1] = "step"
       /\ trace[Len(trace)] = "submit"
       /\ trace[Len(trace) - 1] = "draw"
       /\ \A i \in DOMAIN trace : trace[i] = "upload" => 1 < i /\ i < Len(trace) - 1
       /\ lastRender.fresh
       /\ lastRender.draws = 1
       /\ lastRender.submits = 1

\* a second ready frame, drawn from stepped opacities
C17_Witness ==
  /\ variant = "opacity"
  /\ frames = 2
  /\ lastRender.draws = 1
  /\ ~lastUpdate.called
  /\ opacityData = starOpacities.values
  /\ \E i \in DOMAIN opacityData : opacityData[i].d > 20


\* C15: collectPoints visits no tile before deeptable.ready has resolved:
\* while the table is not ready, whatever calls are suspended, the stored
\* points and bounds are the ones the table was constructed with and no
\* collectPoints has returned.
C15_NoTraversalBeforeReady ==
  ~ready =>
    /\ points = <<>>
    /\ bounds = NoBounds
    /\ result.op # "collectPoints"
    /\ returned = <<>>

\* two calls are suspended at the await of a table that has rows to visit
C15_Witness ==
  /\ ~ready
  /\ pending = 2
  /\ ~NoUsableRow
  /\ points = <<>>
  /\ ~bounds.set

\* the stored bounds are the sentinel of an empty list, or the least and the
\* greatest coordinates of the stored points
BoundsEnclose(list, b) ==
  IF list = <<>>
  THEN /\ b.min = Vec2(PosInfinity, PosInfinity)
       /\ b.max = Vec2(NegInfinity, NegInfinity)
  ELSE /\ \A i \in DOMAIN list :
            /\ NumLE(b.min.x, Num(list[i].position.x))
            /\ NumLE(Num(list[i].position.x), b.max.x)
            /\ NumLE(b.min.y, Num(list[i].position.y))
            /\ NumLE(Num(list[i].position.y), b.max.y)
       /\ \E i \in DOMAIN list : b.min.x = Num(list[i].position.x)
       /\ \E i \in DOMAIN list : b.max.x = Num(list[i].position.x)
       /\ \E i \in DOMAIN list : b.min.y = Num(list[i].position.y)
       /\ \E i \in DOMAIN list : b.max.y = Num(list[i].position.y)

\* the stored points are the usable rows of the given tiles, in order
PointsAreRowsOf(list, ts) ==
  /\ Len(list) = Len(RowsInOrder(ts))
  /\ \A i \in DOMAIN list :
       /\ list[i].position.x = RowsInOrder(ts)[i].x
       /\ list[i].position.y = RowsInOrder(ts)[i].y

\* C18: with calls of collectPoints overlapping and the tiles changing between
\* them, each completing call stores exactly the points of the tiles it
\* visited, nothing carried over from an earlier call; the stored bounds are
\* always the bounding box of the stored points; nothing but a completing
\* call changes either; and the list an earlier call returned keeps the
\* contents it was returned with.
C18_LastTraversalWins ==
  /\ [](bounds.set => BoundsEnclose(points, bounds))
  /\ [](returned = returnedWas)
  /\ [][/\ pending' < pending => PointsAreRowsOf(points', tiles)
        /\ pending' >= pending => UNCHANGED <<points, bounds>>]_vars

\* a call returned one point, the tiles changed, an overlapping call stored
\* another point, and a third call is suspended
C18_Witness ==
  /\ result.op = "collectPoints"
  /\ pending = 1
  /\ Len(returned) = 1
  /\ Len(points) = 1
  /\ points # returned
  /\ returned = returnedWas
  /\ bounds.set

====
